---- MODULE Spec2Model ----
(***************************************************************************)
(* Model of the keyword filter of src/app.py (function main).             *)
(*                                                                         *)
(* One pass of the script is modelled widget by widget: the upload, the    *)
(* column selectbox (with the sample-value caption of line 64), the        *)
(* keyword text input, the filter-method radio and the "Filter Data"       *)
(* button.  Text is a sequence of one-character strings.  pandas'          *)
(* Series.str.contains is called with its default regex=True, so a         *)
(* keyword is compiled as a regular expression; the model implements the   *)
(* part of Python's re that the modelled alphabet can express: literals,   *)
(* ".", the "?" quantifier (greedy "x?" and lazy "x??"), "|" and           *)
(* re.IGNORECASE.                                                          *)
(***************************************************************************)
EXTENDS Integers, Sequences, FiniteSets, TLC

VARIABLES pc, df, selected_column, keyword_input, keywords, filter_method,
          filtered_df, info, warning, error

vars == <<pc, df, selected_column, keyword_input, keywords, filter_method,
          filtered_df, info, warning, error>>

(***************************************************************************)
(* Bounds                                                                  *)
(***************************************************************************)
MaxRows == 2
MaxInputLen == 3

\* characters the user may type into the keyword box
InputChars == {"a", "A", ".", "?", "|", ",", " "}

(***************************************************************************)
(* Text helpers                                                            *)
(***************************************************************************)
RECURSIVE StringsUpTo(_, _)
StringsUpTo(chars, n) ==
    IF n = 0 THEN {<<>>}
    ELSE LET shorter == StringsUpTo(chars, n - 1)
         IN  shorter \cup {Append(s, c) : s \in shorter, c \in chars}

\* str.lower on one character (re.IGNORECASE folds case the same way)
Lower(c) == IF c = "A" THEN "a" ELSE IF c = "B" THEN "b" ELSE c

IsSpace(c) == c = " "

\* str.lstrip / str.rstrip / str.strip
RECURSIVE LStrip(_)
LStrip(s) == IF s # <<>> /\ IsSpace(Head(s)) THEN LStrip(Tail(s)) ELSE s

RECURSIVE RStrip(_)
RStrip(s) ==
    IF s # <<>> /\ IsSpace(s[Len(s)]) THEN RStrip(SubSeq(s, 1, Len(s) - 1))
    ELSE s

\* variant: only the leading whitespace is removed
Strip_LeftOnly(s) == LStrip(s)

Strip(s) == RStrip(LStrip(s))

\* str.split(sep) for a one-character separator: always at least one token
RECURSIVE SplitFrom(_, _, _, _)
SplitFrom(s, sep, i, cur) ==
    IF i > Len(s) THEN <<cur>>
    ELSE IF s[i] = sep THEN <<cur>> \o SplitFrom(s, sep, i + 1, <<>>)
    ELSE SplitFrom(s, sep, i + 1, Append(cur, s[i]))

Split(s, sep) == SplitFrom(s, sep, 1, <<>>)

\* sep.join(parts)
RECURSIVE Join(_, _)
Join(parts, sep) ==
    IF parts = <<>> THEN <<>>
    ELSE IF Len(parts) = 1 THEN parts[1]
    ELSE parts[1] \o <<sep>> \o Join(Tail(parts), sep)

\* keywords = [k.strip() for k in keyword_input.split(",")]
ParseKeywords(input) ==
    LET toks == Split(input, ",")
    IN  [i \in 1..Len(toks) |-> Strip(toks[i])]

(***************************************************************************)
(* Cells and astype(str)                                                   *)
(***************************************************************************)
StrCell(s) == [t |-> "str", s |-> s, n |-> 0]
IntCell(n) == [t |-> "int", s |-> <<>>, n |-> n]
NaNCell == [t |-> "nan", s |-> <<>>, n |-> 0]

Digit(d) == <<"0", "1", "2", "3", "4", "5", "6", "7", "8", "9">>[d + 1]

\* str(n) for a non-negative integer
RECURSIVE IntToStr(_)
IntToStr(n) ==
    IF n < 10 THEN <<Digit(n)>> ELSE Append(IntToStr(n \div 10), Digit(n % 10))

\* text of one cell under Series.astype(str)
CellText(c) ==
    CASE c.t = "str" -> c.s
      [] c.t = "int" -> IntToStr(c.n)
      [] c.t = "nan" -> <<"n", "a", "n">>

AsTypeStr(c) == StrCell(CellText(c))

(***************************************************************************)
(* Regular expressions: re.compile(pat, re.IGNORECASE) and pattern.search  *)
(***************************************************************************)
NoError == ""
NothingToRepeat == "re.error: nothing to repeat"
MultipleRepeat == "re.error: multiple repeat"

\* parse one alternative; an item is an atom with its repeat code
\* (0 none, 1 greedy "?", 2 lazy "??")
RECURSIVE ParseBranch(_, _, _)
ParseBranch(b, i, items) ==
    IF i > Len(b) THEN [err |-> NoError, items |-> items]
    ELSE IF b[i] = "?"
         THEN IF items = <<>>
              THEN [err |-> NothingToRepeat, items |-> <<>>]
              ELSE IF items[Len(items)].rep = 2
              THEN [err |-> MultipleRepeat, items |-> <<>>]
              ELSE ParseBranch(b, i + 1,
                     [items EXCEPT ![Len(items)].rep = @ + 1])
         ELSE ParseBranch(b, i + 1, Append(items, [c |-> b[i], rep |-> 0]))

RECURSIVE CompileBranches(_, _, _)
CompileBranches(bs, i, done) ==
    IF i > Len(bs) THEN [err |-> NoError, branches |-> done]
    ELSE LET p == ParseBranch(bs[i], 1, <<>>)
         IN  IF p.err # NoError THEN [err |-> p.err, branches |-> <<>>]
             ELSE CompileBranches(bs, i + 1, Append(done, p.items))

Compile(pat) == CompileBranches(Split(pat, "|"), 1, <<>>)

\* one atom against one character, case folded
AtomMatches(c, x) == c = "." \/ Lower(c) = Lower(x)

RECURSIVE MatchHere(_, _, _, _)
MatchHere(items, i, text, pos) ==
    IF i > Len(items) THEN TRUE
    ELSE LET take == /\ pos <= Len(text)
                     /\ AtomMatches(items[i].c, text[pos])
                     /\ MatchHere(items, i + 1, text, pos + 1)
         IN  IF items[i].rep = 0 THEN take
             ELSE take \/ MatchHere(items, i + 1, text, pos)

\* compiled.search(text) is not None
Search(branches, text) ==
    \E b \in 1..Len(branches) : \E pos \in 1..(Len(text) + 1) :
        MatchHere(branches[b], 1, text, pos)

(***************************************************************************)
(* Tables (DataFrame): ordered column names and ordered rows; a row keeps  *)
(* its index label and one cell per column                                 *)
(***************************************************************************)
NoTable == [columns |-> <<>>, rows |-> <<>>]

Columns == <<"text", "n">>

\* the rows a loaded file may contain: an object column "text" (strings,
\* a missing value) and an int64 column "n"
RowValues ==
    { [text |-> StrCell(<<"A", "b">>), n |-> IntCell(7)],
      [text |-> StrCell(<<"a", ".">>), n |-> IntCell(12)],
      [text |-> StrCell(<<"b">>),      n |-> IntCell(7)],
      [text |-> NaNCell,               n |-> IntCell(12)] }

RECURSIVE SeqsUpTo(_, _)
SeqsUpTo(S, n) ==
    IF n = 0 THEN {<<>>}
    ELSE LET shorter == SeqsUpTo(S, n - 1)
         IN  shorter \cup {Append(s, x) : s \in shorter, x \in S}

\* pd.read_csv / pd.read_excel: a RangeIndex 0..n-1 over the parsed rows;
\* an empty Excel sheet gives a frame without columns
MakeTable(vals) ==
    [columns |-> Columns,
     rows |-> [i \in 1..Len(vals) |-> [index |-> i - 1, cells |-> vals[i]]]]

LoadedTables == {NoTable} \cup {MakeTable(v) : v \in SeqsUpTo(RowValues, MaxRows)}

ColumnSet(table) == {table.columns[i] : i \in 1..Len(table.columns)}

\* st.selectbox returns None when it has no options
None == "None"
Unset == "unset"

\* variant: a missing label is passed over in silence
GetItemRaises_Silent(table, col) == FALSE

\* df[selected_column] raises KeyError for a label that is not a column
GetItemRaises(table, col) == col \notin ColumnSet(table)

\* variant: the whole frame is converted, df = df.astype(str)
CoerceColumn_AllColumns(table, col) ==
    [table EXCEPT !.rows =
        [i \in 1..Len(table.rows) |->
            [table.rows[i] EXCEPT !.cells =
                [c \in DOMAIN table.rows[i].cells |-> AsTypeStr(@[c])]]]]

\* df[col] = df[col].astype(str)
CoerceColumn(table, col) ==
    [table EXCEPT !.rows =
        [i \in 1..Len(table.rows) |->
            [table.rows[i] EXCEPT !.cells[col] = AsTypeStr(@)]]]

\* variant: every selected row is emitted twice
RECURSIVE BoolIndex_Dup(_, _)
BoolIndex_Dup(rows, mask) ==
    IF rows = <<>> THEN <<>>
    ELSE (IF Head(mask) THEN <<Head(rows), Head(rows)>> ELSE <<>>)
         \o BoolIndex_Dup(Tail(rows), Tail(mask))

\* variant: the selected rows come out last to first
RECURSIVE BoolIndex_Reversed(_, _)
BoolIndex_Reversed(rows, mask) ==
    IF rows = <<>> THEN <<>>
    ELSE BoolIndex_Reversed(Tail(rows), Tail(mask))
         \o (IF Head(mask) THEN <<Head(rows)>> ELSE <<>>)

\* frame[mask]: the rows whose mask entry is True, in frame order
RECURSIVE BoolIndex(_, _)
BoolIndex(rows, mask) ==
    IF rows = <<>> THEN <<>>
    ELSE (IF Head(mask) THEN <<Head(rows)>> ELSE <<>>)
         \o BoolIndex(Tail(rows), Tail(mask))

\* rows[col].str.contains(pat, case=False): the pattern is compiled first,
\* then searched in every cell
StrContains(rows, col, pat) ==
    LET c == Compile(pat)
    IN  [err |-> c.err,
         mask |-> IF c.err # NoError THEN <<>>
                  ELSE [i \in 1..Len(rows) |->
                           Search(c.branches, rows[i].cells[col].s)]]

AnyMethod == "Contains any keyword"
AllMethod == "Contains all keywords"

\* variant: the keywords are joined with the comma they were split on
JoinKeywords_Comma(kws) == Join(kws, ",")

\* '|'.join(keywords)
JoinKeywords(kws) == Join(kws, "|")

\* df[df[col].str.contains('|'.join(keywords), case=False)]
FilterAny(rows, col, kws) ==
    LET r == StrContains(rows, col, JoinKeywords(kws))
    IN  [err |-> r.err,
         rows |-> IF r.err # NoError THEN <<>> ELSE BoolIndex(rows, r.mask)]

\* for keyword in keywords: filtered_df = filtered_df[... contains(keyword)]
RECURSIVE FilterAllFrom(_, _, _, _)
FilterAllFrom(rows, col, kws, i) ==
    IF i > Len(kws) THEN [err |-> NoError, rows |-> rows]
    ELSE LET r == StrContains(rows, col, kws[i])
         IN  IF r.err # NoError THEN [err |-> r.err, rows |-> <<>>]
             ELSE FilterAllFrom(BoolIndex(rows, r.mask), col, kws, i + 1)

FilterAll(rows, col, kws) == FilterAllFrom(rows, col, kws, 1)

FilterRows(rows, col, kws, method) ==
    IF method = AnyMethod THEN FilterAny(rows, col, kws)
    ELSE FilterAll(rows, col, kws)

\* variant: the quotient is taken the wrong way round
MatchPercentage_Swapped(matched, total) == (2000 * total + matched) \div (2 * matched)

\* f"{(len(filtered_df) / len(df)) * 100:.1f}", in tenths of a percent
\* (no value is halfway between two tenths while len(df) < 16)
MatchPercentage(matched, total) == (2000 * matched + total) \div (2 * total)

NoMatchWarning == "No matching rows found"
ValidFileWarning == "Please make sure you've uploaded a valid file"
KeyError == "KeyError"

(***************************************************************************)
(* The script                                                              *)
(***************************************************************************)
Init ==
    /\ pc = "upload"
    /\ df = NoTable
    /\ selected_column = Unset
    /\ keyword_input = <<>>
    /\ keywords = <<>>
    /\ filter_method = Unset
    /\ filtered_df = <<>>
    /\ info = <<>>
    /\ warning = ""
    /\ error = NoError

\* lines 28-56: the loader hands over a table
UploadFile ==
    /\ pc = "upload"
    /\ \E t \in LoadedTables : df' = t
    /\ pc' = "column"
    /\ UNCHANGED <<selected_column, keyword_input, keywords, filter_method,
                   filtered_df, info, warning, error>>

\* lines 60-66: the selectbox, then the sample values of the chosen column;
\* a KeyError is caught by the handler of lines 145-147
SelectColumn ==
    /\ pc = "column"
    /\ \E c \in (IF df.columns = <<>> THEN {None} ELSE ColumnSet(df)) :
         /\ selected_column' = c
         /\ IF GetItemRaises(df, c)
            THEN /\ error' = KeyError
                 /\ warning' = ValidFileWarning
                 /\ pc' = "error"
            ELSE /\ pc' = "keywords"
                 /\ UNCHANGED <<error, warning>>
    /\ UNCHANGED <<df, keyword_input, keywords, filter_method, filtered_df, info>>

\* lines 70-78: the text input; nothing below runs on an empty input
EnterKeywords ==
    /\ pc = "keywords"
    /\ \E input \in StringsUpTo(InputChars, MaxInputLen) :
         /\ keyword_input' = input
         /\ IF input # <<>>
            THEN /\ keywords' = <<ParseKeywords(input)>>
                 /\ pc' = "method"
            ELSE /\ pc' = "idle"
                 /\ UNCHANGED keywords
    /\ UNCHANGED <<df, selected_column, filter_method, filtered_df, info,
                   warning, error>>

\* lines 82-86: the radio
ChooseFilterMethod ==
    /\ pc = "method"
    /\ \E m \in {AnyMethod, AllMethod} : filter_method' = m
    /\ pc' = "button"
    /\ UNCHANGED <<df, selected_column, keyword_input, keywords, filtered_df,
                   info, warning, error>>

\* lines 90-143 and the handler of lines 145-147: the button is pressed
FilterData ==
    /\ pc = "button"
    /\ IF selected_column \in ColumnSet(df)
       THEN LET coerced == CoerceColumn(df, selected_column)
                r == FilterRows(coerced.rows, selected_column, keywords[1],
                                filter_method)
            IN  /\ df' = coerced
                /\ IF r.err # NoError
                   THEN /\ error' = r.err
                        /\ warning' = ValidFileWarning
                        /\ pc' = "error"
                        /\ UNCHANGED <<filtered_df, info>>
                   ELSE /\ filtered_df' = <<[columns |-> df.columns, rows |-> r.rows]>>
                        /\ pc' = "done"
                        /\ UNCHANGED error
                        /\ IF Len(r.rows) > 0
                           THEN /\ info' = <<[found |-> Len(r.rows),
                                             percent10 |-> MatchPercentage(Len(r.rows),
                                                                Len(coerced.rows))]>>
                                /\ UNCHANGED warning
                           ELSE /\ warning' = NoMatchWarning
                                /\ UNCHANGED info
       ELSE /\ pc' = "done"
            /\ UNCHANGED <<df, filtered_df, info, warning, error>>
    /\ UNCHANGED <<selected_column, keyword_input, keywords, filter_method>>

Next ==
    \/ UploadFile
    \/ SelectColumn
    \/ EnterKeywords
    \/ ChooseFilterMethod
    \/ FilterData

Spec == Init /\ [][Next]_vars

TypeOK ==
    /\ pc \in {"upload", "column", "keywords", "method", "button", "idle",
               "done", "error"}
    /\ filter_method \in {Unset, AnyMethod, AllMethod}
    /\ Len(filtered_df) <= 1
    /\ Len(info) <= 1

(***************************************************************************)
(* Properties                                                              *)
(***************************************************************************)
\* plain containment of keyword k in text, ignoring case
ContainsCI(k, text) ==
    \E off \in 0..(Len(text) - Len(k)) :
        \A j \in 1..Len(k) : Lower(text[off + j]) = Lower(k[j])

RowSet(rows) == {rows[i] : i \in 1..Len(rows)}

Filtered == pc = "done" /\ filtered_df # <<>>

Retained(i) == df.rows[i] \in RowSet(filtered_df[1].rows)

TargetText(i) == df.rows[i].cells[selected_column].s

Abs(x) == IF x < 0 THEN -x ELSE x

\* C1: in Any mode a row is retained if and only if at least one keyword is
\* a case-insensitive substring of the text of its target cell.
C1_AnyRetainsIffSomeKeywordContained ==
    (Filtered /\ filter_method = AnyMethod) =>
        \A i \in 1..Len(df.rows) :
            Retained(i) <=>
                \E k \in 1..Len(keywords[1]) : ContainsCI(keywords[1][k], TargetText(i))

\* C2: in All mode a row is retained if and only if every keyword is a
\* case-insensitive substring of the text of its target cell.
C2_AllRetainsIffEveryKeywordContained ==
    (Filtered /\ filter_method = AllMethod) =>
        \A i \in 1..Len(df.rows) :
            Retained(i) <=>
                \A k \in 1..Len(keywords[1]) : ContainsCI(keywords[1][k], TargetText(i))

\* C3: keywords are literal strings, never patterns: no keyword is rejected
\* as a malformed pattern, and a row is retained only when its text holds
\* the exact characters of a keyword (of every keyword in All mode).
C3_KeywordsAreLiteral ==
    /\ error \notin {NothingToRepeat, MultipleRepeat}
    /\ Filtered =>
         \A i \in 1..Len(df.rows) :
            Retained(i) =>
                IF filter_method = AnyMethod
                THEN \E k \in 1..Len(keywords[1]) :
                        ContainsCI(keywords[1][k], TargetText(i))
                ELSE \A k \in 1..Len(keywords[1]) :
                        ContainsCI(keywords[1][k], TargetText(i))

C5_StatisticsAlwaysReported ==
    Filtered =>
        /\ info # <<>>
        /\ info[1].found = Len(filtered_df[1].rows)
        /\ IF Len(df.rows) = 0 THEN info[1].percent10 = 0
           ELSE 2 * Abs(info[1].percent10 * Len(df.rows) - 1000 * info[1].found)
                    <= Len(df.rows)

\* C5 (amended): statistics are reported exactly when at least one row is
\* retained; then the count is the number of retained rows and the
\* percentage is count / total * 100 to one decimal, total being positive.
\* When no row is retained (a table without rows included) no statistics
\* are computed, only the no-match warning is given, and nothing fails.
C5_StatisticsWhenRowsRetained ==
    /\ info # <<>> =>
         /\ Filtered
         /\ info[1].found = Len(filtered_df[1].rows)
         /\ info[1].found > 0
         /\ Len(df.rows) > 0
         /\ 2 * Abs(info[1].percent10 * Len(df.rows) - 1000 * info[1].found)
                <= Len(df.rows)
    /\ (Filtered /\ filtered_df[1].rows = <<>>) =>
         /\ info = <<>>
         /\ warning = NoMatchWarning
         /\ error = NoError
    /\ (Filtered /\ filtered_df[1].rows # <<>>) => (info # <<>> /\ warning = "")

C5_Witness ==
    /\ Filtered
    /\ info # <<>>
    /\ info[1].found < Len(df.rows)

\* C6: the retained rows are a subsequence of the input rows: each one is
\* the input row carrying its index label, and the labels strictly increase.
C6_RetainedRowsAreSubsequence ==
    Filtered =>
        LET out == filtered_df[1].rows
        IN  /\ \A j \in 1..Len(out) :
                  /\ out[j].index + 1 \in 1..Len(df.rows)
                  /\ out[j] = df.rows[out[j].index + 1]
            /\ \A j \in 1..Len(out) : \A k \in 1..Len(out) :
                  j < k => out[j].index < out[k].index

C6_Witness ==
    /\ Filtered
    /\ Len(df.rows) = 2
    /\ filtered_df[1].rows = <<df.rows[2]>>

\* C7: every row retained in All mode is retained in Any mode, for the same
\* table, column and keyword list, whenever both modes accept the list.
C7_AllResultWithinAnyResult ==
    Filtered =>
        LET any == FilterAny(df.rows, selected_column, keywords[1])
            all == FilterAll(df.rows, selected_column, keywords[1])
        IN  /\ filter_method = AllMethod =>
                 (any.err = NoError =>
                     RowSet(filtered_df[1].rows) \subseteq RowSet(any.rows))
            /\ filter_method = AnyMethod =>
                 (all.err = NoError =>
                     RowSet(all.rows) \subseteq RowSet(filtered_df[1].rows))

C7_Witness ==
    /\ Filtered
    /\ filter_method = AllMethod
    /\ Len(keywords[1]) >= 2
    /\ filtered_df[1].rows # <<>>
    /\ Len(filtered_df[1].rows)
          < Len(FilterAny(df.rows, selected_column, keywords[1]).rows)

\* C8: filtering the returned table again, with the same column, keywords
\* and mode, returns that same table.
C8_FilterIsIdempotent ==
    Filtered =>
        LET again == FilterRows(CoerceColumn(filtered_df[1], selected_column).rows,
                                selected_column, keywords[1], filter_method)
        IN  /\ again.err = NoError
            /\ again.rows = filtered_df[1].rows

C8_Witness ==
    /\ Filtered
    /\ Len(filtered_df[1].rows) = 2
    /\ filtered_df[1].rows[1].cells # filtered_df[1].rows[2].cells

\* C9 (as claimed): every token of the keyword list is non-empty and has no
\* leading or trailing whitespace.
C9_TokensNonEmptyAndTrimmed ==
    keywords # <<>> =>
        \A k \in 1..Len(keywords[1]) :
            LET tok == keywords[1][k]
            IN  /\ tok # <<>>
                /\ ~IsSpace(tok[1])
                /\ ~IsSpace(tok[Len(tok)])

\* C9 (amended): the keyword list has one token per comma-separated field
\* of the input, in order; every token is free of commas and has no leading
\* or trailing whitespace, but a token may be empty.
C9_TokensTrimmed ==
    keywords # <<>> =>
        /\ Len(keywords[1])
              = Cardinality({i \in 1..Len(keyword_input) : keyword_input[i] = ","}) + 1
        /\ \A k \in 1..Len(keywords[1]) :
              LET tok == keywords[1][k]
              IN  /\ \A j \in 1..Len(tok) : tok[j] # ","
                  /\ tok # <<>> => (~IsSpace(tok[1]) /\ ~IsSpace(tok[Len(tok)]))

C9_Witness ==
    /\ keywords # <<>>
    /\ \E k \in 1..Len(keywords[1]) : keywords[1][k] = <<>>
    /\ \E k \in 1..Len(keywords[1]) : keywords[1][k] # <<>>
    /\ \E i \in 1..Len(keyword_input) : IsSpace(keyword_input[i])

\* C10: pressing the button changes the input table only by turning the
\* cells of the target column into text: the rows, their order and index
\* labels and every cell of the other columns stay as they were.
C10_OnlyTargetColumnCoerced ==
    [][pc = "button" =>
        /\ df'.columns = df.columns
        /\ Len(df'.rows) = Len(df.rows)
        /\ \A i \in 1..Len(df.rows) :
              /\ df'.rows[i].index = df.rows[i].index
              /\ \A c \in ColumnSet(df) :
                    df'.rows[i].cells[c] =
                        IF c = selected_column THEN AsTypeStr(df.rows[i].cells[c])
                        ELSE df.rows[i].cells[c]]_vars

C10_Witness ==
    /\ Filtered
    /\ selected_column = "text"
    /\ filtered_df[1].rows # <<>>
    /\ \E i \in 1..Len(df.rows) :
          /\ df.rows[i].cells["n"].t = "int"
          /\ df.rows[i].cells["text"] = StrCell(<<"n", "a", "n">>)

====
